---------------------------- MODULE Spec2Model ----------------------------
(***************************************************************************)
(* Model of the authenticated JSON-RPC dispatcher of lbrynet               *)
(* (lbrynet/lbrynet_daemon/auth/server.py) and of the argument binder      *)
(* (lbrynet/core/utils.py: check_params, guess_type).                      *)
(*                                                                         *)
(* Python values are modelled as sequences of strings whose head is the    *)
(* type tag: <<"int","1">>, <<"str","t","r","u","e">>, <<"none">>, ...     *)
(* A str value carries its characters one per element, so that guess_type  *)
(* is computed on the characters as the code computes it.                  *)
(***************************************************************************)
EXTENDS Integers, Sequences, FiniteSets, TLC

(***************************************************************************)
(* Bounds of the model                                                     *)
(***************************************************************************)
MaxPos == 3      \* positional values supplied to a binder call
MaxNamed == 2    \* named values supplied to a binder call

(***************************************************************************)
(* Python values                                                           *)
(***************************************************************************)
None == <<"none">>
PyTrue == <<"bool", "True">>
PyFalse == <<"bool", "False">>
Undefined == <<"undefined">>
NoName == "-"

PyInt(ds) == <<"int">> \o ds
PyStr(cs) == <<"str">> \o cs
IsStr(x) == Len(x) >= 1 /\ x[1] = "str"
Chars(x) == SubSeq(x, 2, Len(x))

EmptyDict == [k \in {} |-> None]
DictPop(d, k) == [x \in (DOMAIN d) \ {k} |-> d[x]]
DictSet(d, k, v) == [x \in (DOMAIN d) \cup {k} |-> IF x = k THEN v ELSE d[x]]
DictUpdate(d, e) == [x \in (DOMAIN d) \cup (DOMAIN e) |-> IF x \in DOMAIN e THEN e[x] ELSE d[x]]

Range(s) == {s[i] : i \in 1..Len(s)}

(***************************************************************************)
(* guess_type (utils.py): string coercion on the characters of the value   *)
(***************************************************************************)
Digits == <<"0", "1", "2", "3", "4", "5", "6", "7", "8", "9">>
IsDigit(c) == c \in Range(Digits)
AllDigits(cs) == \A i \in 1..Len(cs) : IsDigit(cs[i])
IsSpace(c) == c \in {" ", "\t", "\n"}

RECURSIVE LStrip(_)
LStrip(cs) == IF cs # <<>> /\ IsSpace(cs[1]) THEN LStrip(Tail(cs)) ELSE cs

RECURSIVE RStrip(_)
RStrip(cs) ==
    IF cs # <<>> /\ IsSpace(cs[Len(cs)]) THEN RStrip(SubSeq(cs, 1, Len(cs) - 1)) ELSE cs

Strip(cs) == RStrip(LStrip(cs))

HasSign(cs) == cs # <<>> /\ cs[1] \in {"+", "-"}
Unsigned(cs) == IF HasSign(cs) THEN Tail(cs) ELSE cs

RECURSIVE DropLeadingZeros(_)
DropLeadingZeros(ds) ==
    IF Len(ds) > 1 /\ ds[1] = "0" THEN DropLeadingZeros(Tail(ds)) ELSE ds

RECURSIVE DropTrailingZeros(_)
DropTrailingZeros(ds) ==
    IF Len(ds) > 1 /\ ds[Len(ds)] = "0"
    THEN DropTrailingZeros(SubSeq(ds, 1, Len(ds) - 1))
    ELSE ds

IsZero(ds) == \A i \in 1..Len(ds) : ds[i] = "0"

\* position of the first occurrence of a character of cset in cs, 0 if none
FirstIn(cs, cset) ==
    IF \E i \in 1..Len(cs) : cs[i] \in cset
    THEN CHOOSE i \in 1..Len(cs) : cs[i] \in cset /\ \A j \in 1..(i - 1) : cs[j] \notin cset
    ELSE 0

\* int(x): optional blanks, optional sign, one or more decimal digits
IntParses(cs) ==
    LET u == Unsigned(Strip(cs)) IN u # <<>> /\ AllDigits(u)

IntValue(cs) ==
    LET s == Strip(cs)
        u == DropLeadingZeros(Unsigned(s))
        neg == HasSign(s) /\ s[1] = "-" /\ ~IsZero(u)
    IN  <<"int">> \o (IF neg THEN <<"-">> ELSE <<>>) \o u

\* float(x): optional blanks, optional sign, digits with at most one
\* decimal point and at least one digit, optional exponent
MantissaOK(m) ==
    LET p == FirstIn(m, {"."})
        ip == IF p = 0 THEN m ELSE SubSeq(m, 1, p - 1)
        fp == IF p = 0 THEN <<>> ELSE SubSeq(m, p + 1, Len(m))
    IN  AllDigits(ip) /\ AllDigits(fp) /\ Len(ip) + Len(fp) >= 1

ExponentOK(e) ==
    LET u == Unsigned(e) IN u # <<>> /\ AllDigits(u)

FloatParses(cs) ==
    LET u == Unsigned(Strip(cs))
        e == FirstIn(u, {"e", "E"})
        m == IF e = 0 THEN u ELSE SubSeq(u, 1, e - 1)
        x == IF e = 0 THEN <<>> ELSE SubSeq(u, e + 1, Len(u))
    IN  MantissaOK(m) /\ (e = 0 \/ ExponentOK(x))

FloatValue(cs) ==
    LET s == Strip(cs)
        u == Unsigned(s)
        e == FirstIn(u, {"e", "E"})
        m == IF e = 0 THEN u ELSE SubSeq(u, 1, e - 1)
        x == IF e = 0 THEN <<>> ELSE SubSeq(u, e + 1, Len(u))
        p == FirstIn(m, {"."})
        ip0 == IF p = 0 THEN m ELSE SubSeq(m, 1, p - 1)
        fp0 == IF p = 0 THEN <<>> ELSE SubSeq(m, p + 1, Len(m))
        ip == DropLeadingZeros(IF ip0 = <<>> THEN <<"0">> ELSE ip0)
        fp == DropTrailingZeros(IF fp0 = <<>> THEN <<"0">> ELSE fp0)
        xd == DropLeadingZeros(Unsigned(x))
        ex == IF e = 0 \/ IsZero(xd) \/ (IsZero(ip) /\ IsZero(fp)) THEN <<>>
              ELSE <<"e">> \o (IF HasSign(x) /\ x[1] = "-" THEN <<"-">> ELSE <<>>) \o xd
        neg == HasSign(s) /\ s[1] = "-"
    IN  <<"float">> \o (IF neg THEN <<"-">> ELSE <<>>) \o ip \o <<".">> \o fp \o ex

guess_type(x) ==
    IF ~IsStr(x) THEN x
    ELSE LET cs == Chars(x) IN
         IF cs \in {<<"t","r","u","e">>, <<"T","r","u","e">>, <<"T","R","U","E">>} THEN PyTrue
         ELSE IF cs \in {<<"f","a","l","s","e">>, <<"F","a","l","s","e">>,
                         <<"F","A","L","S","E">>} THEN PyFalse
         ELSE IF cs \in {<<"n","o","n","e">>, <<"N","o","n","e">>, <<"n","u","l","l">>,
                         <<"N","U","L","L">>, <<"N","O","N","E">>} THEN None
         ELSE IF "." \in Range(cs)
              THEN (IF FloatParses(cs) THEN FloatValue(cs) ELSE x)
              ELSE (IF IntParses(cs) THEN IntValue(cs) ELSE x)


(***************************************************************************)
(* Signatures (inspect.getargspec) and iterable values                     *)
(***************************************************************************)
\* argspec: args (declared names), defaults (of the trailing names),
\* varargs / keywords (collector names, NoName when absent)
ArgSpec(names, defaults, va, kw) ==
    [args |-> names, defaults |-> defaults, varargs |-> va, keywords |-> kw]

\* tuple(x) of a list value <<"list", d1, d2, ..>> standing for [d1, d2, ..]
IsList(x) == Len(x) >= 1 /\ x[1] = "list"
TupleOf(x) == [i \in 1..(Len(x) - 1) |-> <<"int", x[i + 1]>>]

\* the mapping of a dict value <<"dict", k, d>> standing for {k: d}
IsDict(x) == Len(x) = 3 /\ x[1] = "dict"
ItemsOf(x) == [k \in {x[2]} |-> <<"int", x[3]>>]

\* result of a binder call: the error raised ("" when it returns), the
\* returned pair, and the caller's two containers as the call leaves them
BindResult(err, args, kwargs, lst, dct) ==
    [err |-> err, args |-> args, kwargs |-> kwargs, args_list |-> lst, args_dict |-> dct]

(***************************************************************************)
(* utils.check_params                                                      *)
(***************************************************************************)
\* faulty variant of default_arg: the defaults are aligned with the first
\* names that have one read backwards
default_arg_reversed(fn, i) ==
    LET first_arg_with_default == Len(fn.args) - Len(fn.defaults) IN
    IF i > first_arg_with_default THEN fn.defaults[Len(fn.args) - i + 1] ELSE Undefined

\* default_arg_list[i][1]: the declared default of the i-th name, or undefined
default_arg(fn, i) ==
    LET first_arg_with_default == Len(fn.args) - Len(fn.defaults) IN
    IF i > first_arg_with_default THEN fn.defaults[i - first_arg_with_default] ELSE Undefined

\* faulty variant of OrderOne: a positional value is preferred to the named
\* value of the parameter
OrderOne_positional_first(fn, i, st) ==
    LET arg_name == fn.args[i] IN
    IF st.l # <<>>
    THEN [d |-> st.d, l |-> Tail(st.l), ordered |-> Append(st.ordered, Head(st.l))]
    ELSE IF arg_name \in DOMAIN st.d
    THEN [d |-> DictPop(st.d, arg_name), l |-> st.l,
          ordered |-> Append(st.ordered, st.d[arg_name])]
    ELSE [d |-> st.d, l |-> st.l, ordered |-> Append(st.ordered, default_arg(fn, i))]

\* one turn of the loop over default_arg_list; st = [d, l, ordered]
OrderOne(fn, i, st) ==
    LET arg_name == fn.args[i] IN
    IF arg_name \in DOMAIN st.d
    THEN [d |-> DictPop(st.d, arg_name), l |-> st.l,
          ordered |-> Append(st.ordered, st.d[arg_name])]
    ELSE IF st.l # <<>>
    THEN [d |-> st.d, l |-> Tail(st.l), ordered |-> Append(st.ordered, Head(st.l))]
    ELSE [d |-> st.d, l |-> st.l, ordered |-> Append(st.ordered, default_arg(fn, i))]

\* faulty variant of the walk: the list of positional values is not reversed
\* before the walk, so that pop takes the last value first
OrderOne_from_end(fn, i, st) ==
    LET arg_name == fn.args[i] IN
    IF arg_name \in DOMAIN st.d
    THEN [d |-> DictPop(st.d, arg_name), l |-> st.l,
          ordered |-> Append(st.ordered, st.d[arg_name])]
    ELSE IF st.l # <<>>
    THEN [d |-> st.d, l |-> SubSeq(st.l, 1, Len(st.l) - 1),
          ordered |-> Append(st.ordered, st.l[Len(st.l)])]
    ELSE [d |-> st.d, l |-> st.l, ordered |-> Append(st.ordered, default_arg(fn, i))]

RECURSIVE OrderArgs(_, _, _)
RECURSIVE OrderArgs_unreversed(_, _, _)
OrderArgs_unreversed(fn, i, st) ==
    IF i > Len(fn.args) THEN st
    ELSE OrderArgs_unreversed(fn, i + 1, OrderOne_from_end(fn, i, st))

\* the walk over default_arg_list, in the order of declaration
OrderArgs(fn, i, st) ==
    IF i > Len(fn.args) THEN st ELSE OrderArgs(fn, i + 1, OrderOne(fn, i, st))

\* faulty variant of Collect: the values left over are collected in the
\* reversed order in which the walk leaves them
Collect_reversed(fn, st) ==
    LET has_vargs == fn.varargs # NoName IN
    IF st.l # <<>> /\ has_vargs
    THEN [err |-> "", d |-> st.d,
          ordered |-> st.ordered \o [i \in 1..Len(st.l) |-> st.l[Len(st.l) + 1 - i]]]
    ELSE IF st.l # <<>> /\ ~has_vargs
    THEN [err |-> "TooManyArgs", d |-> st.d, ordered |-> st.ordered]
    ELSE [err |-> "", d |-> st.d, ordered |-> st.ordered]

\* the positional values left after the walk: collected, taken from the
\* named value of the collector, or refused
Collect(fn, st) ==
    LET has_vargs == fn.varargs # NoName IN
    IF st.l # <<>> /\ has_vargs
    THEN [err |-> "", d |-> st.d, ordered |-> st.ordered \o st.l]
    ELSE IF has_vargs /\ fn.varargs \in DOMAIN st.d
    THEN (IF IsList(st.d[fn.varargs])
          THEN [err |-> "", d |-> DictPop(st.d, fn.varargs),
                ordered |-> st.ordered \o TupleOf(st.d[fn.varargs])]
          ELSE [err |-> "TypeError", d |-> DictPop(st.d, fn.varargs), ordered |-> st.ordered])
    ELSE IF st.l # <<>> /\ ~has_vargs
    THEN [err |-> "TooManyArgs", d |-> st.d, ordered |-> st.ordered]
    ELSE [err |-> "", d |-> st.d, ordered |-> st.ordered]

Coerce(convert_type, x) == IF convert_type THEN guess_type(x) ELSE x

\* faulty variant of check_params: named values that are left are returned
\* whether or not the signature collects them
check_params_any_kwargs(fn, args_list, args_dict, convert_type) ==
    LET st == OrderArgs(fn, 1, [d |-> args_dict, l |-> args_list, ordered |-> <<>>])
        c == Collect(fn, st)
        final_args == [i \in 1..Len(c.ordered) |-> Coerce(convert_type, c.ordered[i])]
        out_dict == [k \in DOMAIN c.d |-> Coerce(convert_type, c.d[k])]
    IN
    IF c.err # "" THEN BindResult(c.err, <<>>, EmptyDict, st.l, c.d)
    ELSE IF \E i \in 1..Len(c.ordered) : c.ordered[i] = Undefined
    THEN BindResult("MissingArg", <<>>, EmptyDict, st.l, c.d)
    ELSE BindResult("", final_args, out_dict, st.l, out_dict)

check_params(fn, args_list, args_dict, convert_type) ==
    LET st == OrderArgs(fn, 1, [d |-> args_dict, l |-> args_list, ordered |-> <<>>])
        c == Collect(fn, st)
        has_vkwargs == fn.keywords # NoName
        final_args == [i \in 1..Len(c.ordered) |-> Coerce(convert_type, c.ordered[i])]
        out_dict == [k \in DOMAIN c.d |-> Coerce(convert_type, c.d[k])]
    IN
    IF c.err # "" THEN BindResult(c.err, <<>>, EmptyDict, st.l, c.d)
    ELSE IF \E i \in 1..Len(c.ordered) : c.ordered[i] = Undefined
    THEN BindResult("MissingArg", <<>>, EmptyDict, st.l, c.d)
    ELSE IF DOMAIN c.d # {} /\ ~has_vkwargs
    THEN BindResult("TooManyKwargs", <<>>, EmptyDict, st.l, c.d)
    ELSE BindResult("", final_args, out_dict, st.l, out_dict)


(***************************************************************************)
(* AuthJSONRPCServer._check_params                                         *)
(***************************************************************************)
\* names of the parameters that have a default: arg_names[-default_cnt:]
\* zipped with argspec.defaults
DefaultNames(fn) ==
    {fn.args[i] : i \in (Len(fn.args) - Len(fn.defaults) + 1)..Len(fn.args)}

DefaultValue(fn, name) ==
    LET i == CHOOSE j \in 1..Len(fn.args) : fn.args[j] = name
    IN  fn.defaults[i - (Len(fn.args) - Len(fn.defaults))]

\* the check made on the i-th positional value in the first loop
PositionalError(fn, args_dict, i) ==
    IF i <= Len(fn.args)
    THEN (IF fn.args[i] \in DOMAIN args_dict THEN "Duplicate" ELSE "")
    ELSE IF fn.varargs = NoName THEN "TooManyArguments"
    ELSE ""

\* the error of the first positional value that is refused, "" if none is
FirstPositionalError(fn, args_list, args_dict) ==
    LET bad == {i \in 1..Len(args_list) : PositionalError(fn, args_dict, i) # ""} IN
    IF bad = {} THEN ""
    ELSE PositionalError(fn, args_dict, CHOOSE i \in bad : \A j \in bad : i <= j)

\* faulty variant of KeywordOne: the defaults are not filled in
KeywordOne_no_defaults(fn, nargs, i, st) ==
    LET req_key == fn.args[i + 1] IN
    IF nargs + Cardinality(DOMAIN st.kwargs) = i /\ req_key \in DOMAIN st.d
    THEN [d |-> DictPop(st.d, req_key),
          kwargs |-> DictSet(st.kwargs, req_key, st.d[req_key])]
    ELSE st

\* one turn of the second loop; i counts from 0 as enumerate does;
\* st = [d, kwargs], nargs = len(args)
KeywordOne(fn, nargs, i, st) ==
    LET req_key == fn.args[i + 1] IN
    IF nargs + Cardinality(DOMAIN st.kwargs) = i
    THEN (IF req_key \in DOMAIN st.d
          THEN [d |-> DictPop(st.d, req_key),
                kwargs |-> DictSet(st.kwargs, req_key, st.d[req_key])]
          ELSE IF req_key \in DefaultNames(fn)
          THEN [d |-> st.d, kwargs |-> DictSet(st.kwargs, req_key, DefaultValue(fn, req_key))]
          ELSE st)
    ELSE st

RECURSIVE KeywordArgs(_, _, _, _)
KeywordArgs(fn, nargs, i, st) ==
    IF i >= Len(fn.args) THEN st ELSE KeywordArgs(fn, nargs, i + 1, KeywordOne(fn, nargs, i, st))

\* missing_required: the names after the positional ones that have no default
missing_required(fn, nargs) ==
    {fn.args[i] : i \in (nargs + 1)..Len(fn.args)} \ DefaultNames(fn)

\* the named values given under the collectors' own names
Collectors(fn, args, st) ==
    LET va_given == fn.varargs # NoName /\ fn.varargs \in DOMAIN st.d
        d1 == IF va_given THEN DictPop(st.d, fn.varargs) ELSE st.d
        kw_given == fn.keywords # NoName /\ fn.keywords \in DOMAIN d1
        d2 == IF kw_given THEN DictPop(d1, fn.keywords) ELSE d1
    IN
    IF va_given /\ ~IsList(st.d[fn.varargs])
    THEN [err |-> "TypeError", d |-> d1, args |-> args, kwargs |-> st.kwargs]
    ELSE IF kw_given /\ ~IsDict(d1[fn.keywords])
    THEN [err |-> "TypeError", d |-> d2,
          args |-> IF va_given THEN args \o TupleOf(st.d[fn.varargs]) ELSE args,
          kwargs |-> st.kwargs]
    ELSE [err |-> "", d |-> d2,
          args |-> IF va_given THEN args \o TupleOf(st.d[fn.varargs]) ELSE args,
          kwargs |-> IF kw_given THEN DictUpdate(st.kwargs, ItemsOf(d1[fn.keywords]))
                     ELSE st.kwargs]

server_check_params(fn, args_list, args_dict) ==
    LET perr == FirstPositionalError(fn, args_list, args_dict)
        args == args_list
        st == KeywordArgs(fn, Len(args), 0, [d |-> args_dict, kwargs |-> EmptyDict])
        c == Collectors(fn, args, st)
    IN
    IF perr # "" THEN BindResult(perr, <<>>, EmptyDict, args_list, args_dict)
    ELSE IF missing_required(fn, Len(args)) # {}
    THEN BindResult("MissingRequired", <<>>, EmptyDict, args_list, st.d)
    ELSE IF c.err # "" THEN BindResult(c.err, <<>>, EmptyDict, args_list, c.d)
    ELSE IF DOMAIN c.d # {} THEN BindResult("Extraneous", <<>>, EmptyDict, args_list, c.d)
    ELSE BindResult("", c.args, c.kwargs, args_list, c.d)

(***************************************************************************)
(* The call of the procedure with _args and _kwargs in _render: the value  *)
(* each declared parameter and each collector receives                     *)
(***************************************************************************)
PyCall(fn, args, kwargs) ==
    LET n == Len(fn.args)
        npos == IF Len(args) < n THEN Len(args) ELSE n
        extra == SubSeq(args, n + 1, Len(args))
        declared == Range(fn.args)
        twice == {fn.args[i] : i \in 1..npos} \cap DOMAIN kwargs
        unknown == (DOMAIN kwargs) \ declared
        unbound == {fn.args[i] : i \in (npos + 1)..n} \ ((DOMAIN kwargs) \cup DefaultNames(fn))
    IN
    IF (extra # <<>> /\ fn.varargs = NoName) \/ twice # {} \/ unbound # {}
       \/ (unknown # {} /\ fn.keywords = NoName)
    THEN [err |-> "TypeError", params |-> <<>>, star |-> <<>>, starstar |-> EmptyDict]
    ELSE [err |-> "",
          params |-> [i \in 1..n |->
                        IF i <= npos THEN args[i]
                        ELSE IF fn.args[i] \in DOMAIN kwargs THEN kwargs[fn.args[i]]
                        ELSE DefaultValue(fn, fn.args[i])],
          star |-> extra,
          starstar |-> [k \in unknown |-> kwargs[k]]]


(***************************************************************************)
(* The params of a request on the wire and their split in _render          *)
(***************************************************************************)
\* form "list": a JSON array, head holds its leading object when it has one;
\* form "dict": a JSON object, hasargs tells whether it has the key "__args";
\* form "other": any other JSON value
Wire(form, head, hasargs, items, named) ==
    [form |-> form, head |-> head, hasargs |-> hasargs, items |-> items, named |-> named]

EMPTY_PARAMS == Wire("list", <<EmptyDict>>, FALSE, <<>>, EmptyDict)

\* params that are an empty sequence
EmptySequence == Wire("list", <<>>, FALSE, <<>>, EmptyDict)

\* faulty variant of the split of the params: a list is taken whole as the
\* positional arguments
SplitParams_whole_list(w) ==
    IF w.form = "list"
    THEN [err |-> "", args_list |-> w.head \o w.items, args_dict |-> EmptyDict]
    ELSE IF w.form = "dict"
    THEN [err |-> "",
          args_list |-> IF w.hasargs THEN w.items ELSE <<>>,
          args_dict |-> w.named]
    ELSE [err |-> "UnknownArgumentFormat", args_list |-> <<>>, args_dict |-> EmptyDict]

\* the split of the params in _render
SplitParams(w) ==
    IF w.form = "list"
    THEN (IF w = EMPTY_PARAMS
          THEN [err |-> "", args_list |-> <<>>, args_dict |-> EmptyDict]
          ELSE IF w.head # <<>>
          THEN [err |-> "", args_list |-> w.items, args_dict |-> w.head[1]]
          ELSE [err |-> "", args_list |-> w.items, args_dict |-> EmptyDict])
    ELSE IF w.form = "dict"
    THEN [err |-> "",
          args_list |-> IF w.hasargs THEN w.items ELSE <<>>,
          args_dict |-> w.named]
    ELSE [err |-> "UnknownArgumentFormat", args_list |-> <<>>, args_dict |-> EmptyDict]

(***************************************************************************)
(* Inputs of the binder calls                                              *)
(***************************************************************************)
\* the parameter names of the test procedures f1..f4
ArgNames == <<"one", "two", "three", "four">>

\* declared defaults: those of f1, and a table of strings that guess_type
\* changes
DefaultsOf(style, name) ==
    IF style = "f1"
    THEN (CASE name = "one" -> PyTrue
            [] name = "two" -> None
            [] name = "three" -> PyStr(<<"t","h","r","e","e">>)
            [] OTHER -> PyInt(<<"1">>))
    ELSE (CASE name = "one" -> PyStr(<<"N","o","n","e">>)
            [] name = "two" -> PyStr(<<"2">>)
            [] name = "three" -> PyStr(<<"0",".","3","0">>)
            [] OTHER -> PyStr(<<"T","R","U","E">>))

Signature(m, k, style, va, kw) ==
    ArgSpec(SubSeq(ArgNames, 1, m),
            [i \in 1..k |-> DefaultsOf(style, ArgNames[m - k + i])], va, kw)

Signatures ==
    UNION {{Signature(m, k, style, va, kw) :
              k \in 0..m, style \in {"f1", "str"},
              va \in {NoName, "star"}, kw \in {NoName, "kw"}} : m \in 0..Len(ArgNames)}

\* the i-th positional value of a call
PosVal(i) == IF i = 2 THEN PyStr(<<"t","r","u","e">>) ELSE PyInt(<<Digits[i + 1]>>)
PosList(n) == [i \in 1..n |-> PosVal(i)]

\* the value a call gives under a name
NamedKeys == Range(ArgNames) \cup {"five", "star", "kw"}
NamedVal(k) ==
    CASE k = "one" -> PyInt(<<"1", "0">>)
      [] k = "two" -> None
      [] k = "three" -> PyStr(<<"3", "0">>)
      [] k = "four" -> PyInt(<<"4", "0">>)
      [] k = "star" -> <<"list", "8", "9">>
      [] k = "kw" -> <<"dict", "six", "6">>
      [] OTHER -> PyInt(<<"5", "0">>)
NamedDict(S) == [k \in S |-> NamedVal(k)]

\* the request and the procedure of the end-to-end example of binding
ExampleSignature == Signature(4, 3, "f1", NoName, NoName)
ExampleWire == Wire("list", <<[k \in {"two"} |-> None]>>, FALSE, <<PyInt(<<"1">>)>>, EmptyDict)

NoWire == Wire("none", <<>>, FALSE, <<>>, EmptyDict)
NoResult == BindResult("", <<>>, EmptyDict, <<>>, EmptyDict)

\* the wire forms of params that stand for a positional list and a named map
WiresOf(l, d) ==
    {Wire("list", <<d>>, FALSE, l, EmptyDict), Wire("dict", <<>>, TRUE, l, d)}
    \cup (IF d = EmptyDict THEN {Wire("list", <<>>, FALSE, l, EmptyDict)} ELSE {})
    \cup (IF l = <<>> THEN {Wire("dict", <<>>, FALSE, <<>>, d)} ELSE {})


(***************************************************************************)
(* The dispatcher: registry, error codes, sessions                         *)
(***************************************************************************)
MaxReq == 3      \* requests received by the server

Reqs == 1..MaxReq
SessionIds == {"s1"}

CODE_PARSE_ERROR == -32700
CODE_INVALID_REQUEST == -32600
CODE_METHOD_NOT_FOUND == -32601
CODE_INVALID_PARAMS == -32602
CODE_INTERNAL_ERROR == -32603
CODE_APPLICATION_ERROR == -32500
CODE_AUTHENTICATION_ERROR == -32501

HTTP_CODES(code) ==
    CASE code = CODE_INVALID_REQUEST -> 400
      [] code = CODE_PARSE_ERROR -> 400
      [] code = CODE_INVALID_PARAMS -> 400
      [] code = CODE_METHOD_NOT_FOUND -> 404
      [] code = CODE_INTERNAL_ERROR -> 500
      [] code = CODE_APPLICATION_ERROR -> 500
      [] code = CODE_AUTHENTICATION_ERROR -> 401
      [] OTHER -> 500

\* the registry that AuthorizedBase.__init__ builds from the jsonrpc_ methods
\* of the daemon and their decorators
callable_methods == {"status", "get"}
authorized_functions == {"get"}
queued_methods == {"get"}
allowed_during_startup == {"status"}
UnknownMethod == "nosuch"

SignatureOf(method) ==
    CASE method = "get" -> ExampleSignature
      [] OTHER -> Signature(0, 0, "f1", NoName, NoName)

\* the request bodies the clients send: kind "object" is a JSON-RPC request
\* object, "notobject" another JSON value, "badjson" not JSON at all
Body(kind, method, wire) == [kind |-> kind, method |-> method, wire |-> wire]
OtherWire == Wire("other", <<>>, FALSE, <<>>, EmptyDict)
\* params that the binder refuses for the signature of get: the first
\* parameter given by position and by name, five positional values, a named
\* value that no parameter declares
DuplicateWire ==
    Wire("list", <<[k \in {"one"} |-> NamedVal("one")]>>, FALSE, PosList(1), EmptyDict)
TooManyWire == Wire("list", <<>>, FALSE, PosList(5), EmptyDict)
ExtraneousWire == Wire("dict", <<>>, TRUE, PosList(1), NamedDict({"five"}))

Bodies ==
    {Body("object", "status", EMPTY_PARAMS), Body("object", "get", ExampleWire),
     Body("object", "get", EMPTY_PARAMS), Body("object", "get", OtherWire),
     Body("object", "get", DuplicateWire), Body("object", "get", TooManyWire),
     Body("object", "get", ExtraneousWire),
     Body("object", UnknownMethod, EMPTY_PARAMS),
     Body("badjson", "", NoWire), Body("notobject", "", NoWire)}

\* APIKey: a secret is a positive number, 0 stands for no key; a token is
\* the keyed hash of a message, the pair of the key and the message
NoSecret == 0
NoToken == <<0, "">>
Hmac(secret, msg) == <<secret, msg>>
compare_hmac(secret, to_auth, token) == token = Hmac(secret, to_auth)
\* the canonical message of a request body
get_auth_message(body) == body.method
Messages == callable_methods \cup {UnknownMethod}

(***************************************************************************)
(* Deferreds                                                               *)
(***************************************************************************)
\* the completion signal of request r (request.notifyFinish()) and the
\* Deferred of the invocation of its procedure (defer.maybeDeferred)
DFin(r) == <<"fin", r>>
DExe(r) == <<"exe", r>>
DIds == {"fin", "exe"} \X Reqs
NoD == <<"none", 0>>

NewDeferred ==
    [called |-> FALSE, res |-> "ok", chain |-> <<>>, paused |-> FALSE, suppress |-> FALSE]

\* an entry of a callback chain: its kind, the request it belongs to and the
\* Deferred it refers to
Cb(t, r, d) == [t |-> t, r |-> r, d |-> d]

Trapped == {"ConnectionDone", "ConnectionLost", "CancelledError", "RuntimeError"}

NoResponse ==
    [kind |-> "none", code |-> 0, http |-> 0, secret |-> NoSecret, id |-> FALSE, message |-> ""]

\* JSONRPCError.MESSAGES, and "Error" for a code that has no entry
MESSAGES(code) ==
    CASE code = CODE_PARSE_ERROR -> "Parse Error. Data is not valid JSON."
      [] code = CODE_INVALID_REQUEST -> "JSON data is not a valid Request"
      [] code = CODE_METHOD_NOT_FOUND -> "Method Not Found"
      [] code = CODE_INVALID_PARAMS -> "Invalid Params"
      [] code = CODE_INTERNAL_ERROR -> "Internal Error"
      [] code = CODE_AUTHENTICATION_ERROR -> "Authentication Failed"
      [] OTHER -> "Error"

\* the message argument of JSONRPCError: None, the message of the exception
\* that is answered, or the text given for a method refused during startup
NoMessage == ""
ExceptionMessage == "message of the exception"
StartupMessage == "This method is unavailable until the daemon is fully started"

\* the response that _render_error writes for JSONRPCError(message, code)
ErrorWith(message, code, id) ==
    [kind |-> "error", code |-> code, http |-> HTTP_CODES(code), secret |-> NoSecret, id |-> id,
     message |-> IF message = NoMessage THEN MESSAGES(code) ELSE message]

\* the errors built from an exception carry its message, the others are
\* built with the message None
ErrorResponse(code, id) ==
    ErrorWith(IF code \in {CODE_INVALID_PARAMS, CODE_APPLICATION_ERROR}
              THEN ExceptionMessage ELSE NoMessage, code, id)

NewRequest ==
    [arrived |-> FALSE, sid |-> "", method |-> "", handshake |-> FALSE,
     token |-> "", verified |-> FALSE, auth_key |-> NoSecret, next_secret |-> FALSE,
     conn |-> "open", finished |-> FALSE, resp |-> NoResponse, ex |-> "none",
     behind |-> 0, writes |-> 0]

RECURSIVE RunCallbacks(_, _)

\* Deferred.callback / Deferred.errback
Fire(w, d, res) ==
    IF w.dfr[d].called
    THEN [w EXCEPT !.dfr[d].suppress = FALSE]
    ELSE RunCallbacks([w EXCEPT !.dfr[d].called = TRUE, !.dfr[d].res = res], d)

\* Deferred.cancel of a Deferred that has not fired
Cancel(w, d) ==
    LET w1 == [w EXCEPT !.dfr[d].suppress = TRUE]
        w2 == IF d[1] = "exe"
              THEN [w1 EXCEPT !.reqs[d[2]].ex = "cancelled"]
              ELSE w1
    IN  Fire(w2, d, "CancelledError")

\* _handle_dropped_request
handle_dropped_request(w, d) ==
    IF ~w.dfr[d].called THEN Cancel(w, d) ELSE w

\* a request object that takes a write after it is finished
render_message_again(w, r, resp) ==
    IF w.reqs[r].conn = "lost"
    THEN [w |-> w, err |-> "RuntimeError"]
    ELSE [w |-> Fire([w EXCEPT !.reqs[r].resp = resp, !.reqs[r].finished = TRUE,
                               !.reqs[r].writes = @ + 1], DFin(r), "ok"),
          err |-> ""]

\* _render_message: request.write and request.finish, which fires the
\* completion signal of the request; both refuse a request whose connection
\* is lost or that is finished. writes counts the responses written
render_message(w, r, resp) ==
    IF w.reqs[r].conn = "lost" \/ w.reqs[r].finished
    THEN [w |-> w, err |-> "RuntimeError"]
    ELSE [w |-> Fire([w EXCEPT !.reqs[r].resp = resp, !.reqs[r].finished = TRUE,
                               !.reqs[r].writes = @ + 1], DFin(r), "ok"),
          err |-> ""]

\* _render_error
render_error(w, r, code, id) == render_message(w, r, ErrorResponse(code, id))

\* the code of the JSONRPCError with which a procedure fails
StructuredCode == CODE_METHOD_NOT_FOUND

\* _render_error of the Failure of a procedure. failure.check(JSONRPCError)
\* gives the class JSONRPCError when the failure wraps a JSONRPCError, never
\* the wrapped error: jsonrpc_dumps_pretty of the class raises TypeError and
\* nothing is written. Any other failure is answered as an application error
render_failure(w, r, res) ==
    IF res = "JSONRPCError"
    THEN [w |-> w, err |-> "TypeError"]
    ELSE render_error(w, r, CODE_APPLICATION_ERROR, TRUE)

\* faulty variant of _callback_render: the error of the except clause is
\* rendered after the result too, on a request that takes a second write
callback_render_error_after(w, r) ==
    LET q == w.reqs[r]
        secret == IF q.next_secret THEN w.sessions[q.sid] ELSE NoSecret
    IN
    IF q.next_secret /\ w.sessions[q.sid] = NoSecret
    THEN render_error(w, r, CODE_APPLICATION_ERROR, TRUE)
    ELSE LET x == render_message(w, r, [kind |-> "result", code |-> 0, http |-> 200,
                                        secret |-> secret, id |-> TRUE, message |-> ""])
         IN  IF x.err = ""
             THEN render_message_again(x.w, r, ErrorResponse(CODE_APPLICATION_ERROR, TRUE))
             ELSE render_error(w, r, CODE_APPLICATION_ERROR, TRUE)

\* faulty variant of _callback_render: the secret header is always set
callback_render_always_secret(w, r) ==
    LET q == w.reqs[r]
        secret == w.sessions[q.sid]
    IN
    LET x == render_message(w, r, [kind |-> "result", code |-> 0, http |-> 200,
                                   secret |-> secret, id |-> TRUE, message |-> ""])
    IN  IF x.err = "" THEN x ELSE render_error(w, r, CODE_APPLICATION_ERROR, TRUE)

\* _callback_render
callback_render(w, r) ==
    LET q == w.reqs[r]
        secret == IF q.next_secret THEN w.sessions[q.sid] ELSE NoSecret
    IN
    IF q.next_secret /\ w.sessions[q.sid] = NoSecret
    THEN render_error(w, r, CODE_APPLICATION_ERROR, TRUE)
    ELSE LET x == render_message(w, r, [kind |-> "result", code |-> 0, http |-> 200,
                                        secret |-> secret, id |-> TRUE, message |-> ""])
         IN  IF x.err = "" THEN x ELSE render_error(w, r, CODE_APPLICATION_ERROR, TRUE)

\* _del_lock
del_lock(w, r) ==
    LET function_name == w.reqs[r].method IN
    IF w.lock[function_name] # 0 THEN [w EXCEPT !.lock[function_name] = 0] ELSE w

\* the call of the procedure of request r: defer.maybeDeferred(function, ...)
StartProcedure(w, r) == [w EXCEPT !.reqs[r].ex = "running"]

\* one callback or errback of the chain of d, applied to the result res:
\* the new state, the new result, and whether d now waits for another Deferred
ApplyEntry(w, d, e, res) ==
    CASE e.t = "del_lock" ->
            IF res = "ok" THEN [w |-> del_lock(w, e.r), res |-> "ok", pause |-> FALSE]
            ELSE [w |-> w, res |-> res, pause |-> FALSE]
      [] e.t = "dropped" ->
            IF res # "ok" THEN [w |-> handle_dropped_request(w, e.d), res |-> "ok", pause |-> FALSE]
            ELSE [w |-> w, res |-> res, pause |-> FALSE]
      [] e.t \in {"log", "time"} -> [w |-> w, res |-> "ok", pause |-> FALSE]
      [] e.t = "run" ->
            IF res = "ok"
            THEN [w |-> [StartProcedure(w, e.r) EXCEPT
                            !.dfr[DExe(e.r)].chain = <<Cb("continue", e.r, d)>>],
                  res |-> res, pause |-> TRUE]
            ELSE [w |-> w, res |-> res, pause |-> FALSE]
      [] e.t = "render" ->
            IF res = "ok"
            THEN LET x == callback_render(w, e.r)
                 IN  [w |-> x.w, res |-> IF x.err = "" THEN "ok" ELSE x.err, pause |-> FALSE]
            ELSE [w |-> w, res |-> res, pause |-> FALSE]
      [] e.t = "trap" ->
            [w |-> w, res |-> IF res \in Trapped THEN "ok" ELSE res, pause |-> FALSE]
      [] e.t = "render_error" ->
            IF res # "ok"
            THEN LET x == render_failure(w, e.r, res)
                 IN  [w |-> x.w, res |-> IF x.err = "" THEN "ok" ELSE x.err, pause |-> FALSE]
            ELSE [w |-> w, res |-> res, pause |-> FALSE]
      [] OTHER -> \* "continue": the Deferred e.d waited for d
            [w |-> RunCallbacks([w EXCEPT !.dfr[e.d].paused = FALSE, !.dfr[e.d].res = res], e.d),
             res |-> "ok", pause |-> FALSE]

\* Deferred._runCallbacks
RunCallbacks(w, d) ==
    LET D == w.dfr[d] IN
    IF ~D.called \/ D.paused \/ D.chain = <<>> THEN w
    ELSE LET w1 == [w EXCEPT !.dfr[d].chain = Tail(D.chain)]
             x == ApplyEntry(w1, d, Head(D.chain), D.res)
         IN  RunCallbacks([x.w EXCEPT !.dfr[d].res = x.res, !.dfr[d].paused = x.pause], d)

\* addCallback / addErrback / addBoth of a sequence of entries
AddCallbacks(w, d, entries) ==
    RunCallbacks([w EXCEPT !.dfr[d].chain = w.dfr[d].chain \o entries], d)

(***************************************************************************)
(* State                                                                   *)
(***************************************************************************)
VARIABLES
    use_authentication,  \* AuthJSONRPCServer._use_authentication
    announced_startup,   \* AuthJSONRPCServer.announced_startup
    sessions,            \* AuthJSONRPCServer.sessions: the secret of each session id
    secret_ctr,          \* the number of secrets generated so far
    call_lock,           \* AuthorizedBase._call_lock: the request whose completion
                         \* signal is the lock of a queued procedure name, 0 if none
    dfr,                 \* the Deferreds
    reqs,                \* the requests
    call                 \* a binder call: its inputs, the binder that ran and its result

dvars == <<use_authentication, announced_startup, sessions, secret_ctr, call_lock, dfr, reqs>>
vars == <<use_authentication, announced_startup, sessions, secret_ctr, call_lock, dfr, reqs,
          call>>

IdleCall ==
    [pc |-> "idle", fn |-> ArgSpec(<<>>, <<>>, NoName, NoName), args_list |-> <<>>,
     args_dict |-> EmptyDict, wire |-> NoWire, binder |-> "", convert_type |-> FALSE,
     res |-> NoResult]

(***************************************************************************)
(* Binder calls                                                            *)
(***************************************************************************)
InitDispatcher ==
    /\ announced_startup = FALSE
    /\ sessions = [sid \in SessionIds |-> NoSecret]
    /\ secret_ctr = 0
    /\ call_lock = [m \in queued_methods |-> 0]
    /\ dfr = [d \in DIds |-> NewDeferred]
    /\ reqs = [r \in Reqs |-> NewRequest]

InitBind ==
    /\ use_authentication = FALSE
    /\ InitDispatcher
    /\ \E fn \in Signatures, n \in 0..MaxPos, S \in SUBSET NamedKeys :
        /\ Cardinality(S) <= MaxNamed
        /\ call = [IdleCall EXCEPT !.pc = "input", !.fn = fn, !.args_list = PosList(n),
                                   !.args_dict = NamedDict(S)]

\* DaemonCLI.main: utils.check_params(fn, arg_list, kw_dict)
CLICheckParams ==
    /\ call.pc = "input"
    /\ call' = [call EXCEPT !.pc = "bound", !.binder = "utils", !.convert_type = FALSE,
                            !.res = check_params(call.fn, call.args_list, call.args_dict, FALSE)]
    /\ UNCHANGED dvars

\* DaemonCLITests._run_parse_test_case: utils.check_params(fn, arg_list, kw_dict, True)
TestCheckParams ==
    /\ call.pc = "input"
    /\ call' = [call EXCEPT !.pc = "bound", !.binder = "utils", !.convert_type = TRUE,
                            !.res = check_params(call.fn, call.args_list, call.args_dict, TRUE)]
    /\ UNCHANGED dvars

\* _render: the params of the request are split and bound by _check_params
RenderCheckParams ==
    /\ call.pc = "input"
    /\ \E w \in WiresOf(call.args_list, call.args_dict) :
         LET sp == SplitParams(w) IN
         call' = [call EXCEPT !.pc = "bound", !.binder = "server", !.wire = w,
                              !.args_list = sp.args_list, !.args_dict = sp.args_dict,
                              !.res = server_check_params(call.fn, sp.args_list, sp.args_dict)]
    /\ UNCHANGED dvars

NextBind == CLICheckParams \/ TestCheckParams \/ RenderCheckParams

SpecBind == InitBind /\ [][NextBind]_vars


(***************************************************************************)
(* AuthJSONRPCServer.render / _render                                      *)
(***************************************************************************)
World == [sessions |-> sessions, lock |-> call_lock, dfr |-> dfr, reqs |-> reqs]

\* faulty variant of _verify_method_is_callable: the startup check is made
\* before the lookup of the name
verify_method_is_callable_startup_first(function_path, announced) ==
    IF ~announced /\ function_path \notin allowed_during_startup
    THEN "NotAllowedDuringStartupError"
    ELSE IF function_path \notin callable_methods THEN "UnknownAPIMethodError"
    ELSE ""

\* _verify_method_is_callable: the exception it raises, "" if none
verify_method_is_callable(function_path, announced) ==
    IF function_path \notin callable_methods THEN "UnknownAPIMethodError"
    ELSE IF ~announced /\ function_path \notin allowed_during_startup
    THEN "NotAllowedDuringStartupError"
    ELSE ""

\* faulty variant of _verify_token: a request without a token passes
verify_token_optional(secret, message, token) ==
    IF token # NoToken /\ ~compare_hmac(secret, get_auth_message(message), token)
    THEN "InvalidAuthenticationToken"
    ELSE ""

\* faulty variant of _get_jsonrpc_method: the method is returned without
\* the check of startup
get_jsonrpc_method_unchecked(function_path, announced) ==
    [err |-> IF function_path \notin callable_methods THEN "UnknownAPIMethodError" ELSE "",
     function |-> SignatureOf(function_path)]

\* _get_jsonrpc_method: the exception it raises, "" if none, and the
\* procedure it returns, which the model knows by its signature
get_jsonrpc_method(function_path, announced) ==
    [err |-> verify_method_is_callable(function_path, announced),
     function |-> SignatureOf(function_path)]

\* _verify_token: the exception it raises, "" if none
verify_token(secret, message, token) ==
    IF token = NoToken THEN "InvalidAuthenticationToken"
    ELSE IF ~compare_hmac(secret, get_auth_message(message), token)
    THEN "InvalidAuthenticationToken"
    ELSE ""

\* faulty variant of _update_session_secret: the secret is kept
update_session_secret_kept(sess, session_id, fresh) == sess

\* _update_session_secret
update_session_secret(sess, session_id, fresh) == [sess EXCEPT ![session_id] = fresh]

\* faulty variant of _register_user_session: no entry is made
register_user_session_skipped(sess, session_id, fresh) == sess

\* _register_user_session
register_user_session(sess, session_id, fresh) == [sess EXCEPT ![session_id] = fresh]

\* faulty variant of the except clause around _check_params: the exception
\* is answered as an internal error
render_params_error_internal(w, r) == render_error(w, r, CODE_INTERNAL_ERROR, TRUE).w

\* the except clause around _check_params in _render: the exception of the
\* binder is answered as invalid params, with its message
render_params_error(w, r) == render_error(w, r, CODE_INVALID_PARAMS, TRUE).w

\* the except clause of render: an exception that leaves _render is answered
\* as an application error without the id of the request
render_exception(w, r) == render_error(w, r, CODE_APPLICATION_ERROR, FALSE).w

\* faulty variant of the last part of _render: a procedure that is not queued
\* waits behind the lock of a queued name when there is one
Invoke_behind_any_lock(w, r) ==
    LET function_name == w.reqs[r].method
        is_queued == function_name \in queued_methods
        held == {m \in queued_methods : w.lock[m] # 0}
        d_lock == IF is_queued THEN w.lock[function_name]
                  ELSE IF held # {} THEN w.lock[CHOOSE m \in held : TRUE] ELSE 0
        tail == <<Cb("render", r, NoD), Cb("trap", r, NoD), Cb("render_error", r, NoD),
                  Cb("time", r, NoD)>>
    IN
    IF d_lock # 0
    THEN LET d == DFin(d_lock)
             w1 == [w EXCEPT !.reqs[r].ex = "waiting"]
             w2 == AddCallbacks(w1, d, <<Cb("log", r, NoD), Cb("run", r, NoD)>>)
             w3 == [w2 EXCEPT !.dfr[DFin(r)].chain = <<Cb("dropped", r, d)>>]
         IN  AddCallbacks(w3, d, tail)
    ELSE LET w1 == StartProcedure(w, r)
             w2 == IF is_queued
                   THEN [w1 EXCEPT !.lock[function_name] = r,
                                   !.dfr[DFin(r)].chain = <<Cb("del_lock", r, NoD)>>]
                   ELSE w1
         IN  [w2 EXCEPT !.dfr[DFin(r)].chain = w2.dfr[DFin(r)].chain \o <<Cb("dropped", r, DExe(r))>>,
                        !.dfr[DExe(r)].chain = tail]

\* the last part of _render: the procedure is called at once, or chained on
\* the lock of its name
Invoke(w, r) ==
    LET function_name == w.reqs[r].method
        is_queued == function_name \in queued_methods
        d_lock == IF is_queued THEN w.lock[function_name] ELSE 0
        tail == <<Cb("render", r, NoD), Cb("trap", r, NoD), Cb("render_error", r, NoD),
                  Cb("time", r, NoD)>>
    IN
    IF is_queued /\ d_lock # 0
    THEN LET d == DFin(d_lock)
             w1 == [w EXCEPT !.reqs[r].ex = "waiting"]
             w2 == AddCallbacks(w1, d, <<Cb("log", r, NoD), Cb("run", r, NoD)>>)
             w3 == [w2 EXCEPT !.dfr[DFin(r)].chain = <<Cb("dropped", r, d)>>]
         IN  AddCallbacks(w3, d, tail)
    ELSE LET w1 == StartProcedure(w, r)
             w2 == IF is_queued
                   THEN [w1 EXCEPT !.lock[function_name] = r,
                                   !.dfr[DFin(r)].chain = <<Cb("del_lock", r, NoD)>>]
                   ELSE w1
         IN  [w2 EXCEPT !.dfr[DFin(r)].chain = w2.dfr[DFin(r)].chain \o <<Cb("dropped", r, DExe(r))>>,
                        !.dfr[DExe(r)].chain = tail]

\* _render from the reading of the body on; fresh is the secret that
\* APIKey.new gives to _update_session_secret
Dispatch(w, r, body, token, fresh, announced) ==
    LET session_id == w.reqs[r].sid
        function_name == body.method
        auth == use_authentication /\ function_name \in authorized_functions
        verr == IF auth THEN verify_token(w.sessions[session_id], body, token) ELSE ""
        wa == IF auth /\ body.kind = "object"
              THEN [w EXCEPT !.reqs[r].token = IF token = NoToken THEN "none" ELSE "given"]
              ELSE w
        w1 == IF auth /\ verr = ""
              THEN [wa EXCEPT !.sessions = update_session_secret(w.sessions, session_id, fresh),
                             !.reqs[r].verified = TRUE,
                             !.reqs[r].auth_key = w.sessions[session_id],
                             !.reqs[r].next_secret = TRUE]
              ELSE wa
        function == get_jsonrpc_method(function_name, announced)
        merr == function.err
        sp == SplitParams(body.wire)
        bound == server_check_params(function.function, sp.args_list, sp.args_dict)
    IN
    IF body.kind = "badjson" THEN render_error(w, r, CODE_PARSE_ERROR, FALSE).w
    ELSE IF body.kind = "notobject" THEN render_error(w, r, CODE_INVALID_REQUEST, FALSE).w
    ELSE IF verr # "" THEN render_exception(wa, r)
    ELSE IF merr = "UnknownAPIMethodError" THEN render_error(w1, r, CODE_METHOD_NOT_FOUND, TRUE).w
    ELSE IF merr = "NotAllowedDuringStartupError"
    THEN render_message(w1, r, ErrorWith(StartupMessage, CODE_INVALID_REQUEST, TRUE)).w
    ELSE IF sp.err # "" THEN render_exception(w1, r)
    ELSE IF bound.err # "" THEN render_params_error(w1, r)
    ELSE Invoke(w1, r)

\* faulty variant of the test of _initialize_session: only the first session
\* of the server is new
initialize_session_once(sess, session_id) ==
    sess[session_id] = NoSecret /\ \A k \in DOMAIN sess : sess[k] = NoSecret /\ secret_ctr = 0

\* the test of _initialize_session: the session has no secret
initialize_session(sess, session_id) == sess[session_id] = NoSecret

\* _unregister_user_session
unregister_user_session(sess, session_id) == [sess EXCEPT ![session_id] = NoSecret]

\* the tokens a client can put in a request: none, or the keyed hash of a
\* message under a secret generated so far
Tokens == {NoToken} \cup {Hmac(k, m) : k \in 1..secret_ctr, m \in Messages}

\* the request of session sid arrives: render(request)
Render(r, sid, body, token) ==
    /\ ~reqs[r].arrived
    /\ \A i \in 1..(r - 1) : reqs[i].arrived
    /\ LET fresh == secret_ctr + 1
           w0 == [World EXCEPT !.reqs[r] =
                     [NewRequest EXCEPT !.arrived = TRUE, !.sid = sid,
                                        !.method = body.method,
                                        !.behind =
                                            LET W == {i \in Reqs : /\ reqs[i].ex = "waiting"
                                                                   /\ reqs[i].method = body.method}
                                            IN  IF W = {} THEN 0
                                                ELSE CHOOSE i \in W : \A j \in W : j <= i]]
           initialize == use_authentication /\ initialize_session(sessions, sid)
           wr == [w0 EXCEPT !.sessions = register_user_session(sessions, sid, fresh),
                            !.reqs[r].handshake = TRUE]
           w1 == IF initialize
                 THEN render_message(wr, r, [kind |-> "ack", code |-> 0, http |-> 200,
                                             secret |-> wr.sessions[sid], id |-> FALSE,
                                             message |-> ""]).w
                 ELSE Dispatch(w0, r, body, token, fresh, announced_startup)
       IN  /\ sessions' = w1.sessions
           /\ call_lock' = w1.lock
           /\ dfr' = w1.dfr
           /\ reqs' = w1.reqs
           /\ secret_ctr' = IF w1.sessions # sessions THEN fresh ELSE secret_ctr
    /\ UNCHANGED <<use_authentication, announced_startup, call>>

\* the procedure of request r returns or fails: its Deferred fires
Complete(r, outcome) ==
    /\ reqs[r].ex = "running"
    /\ LET w1 == Fire([World EXCEPT !.reqs[r].ex = "done"], DExe(r), outcome)
       IN  /\ call_lock' = w1.lock
           /\ dfr' = w1.dfr
           /\ reqs' = w1.reqs
    /\ UNCHANGED <<use_authentication, announced_startup, sessions, secret_ctr, call>>

\* the client of request r closes its connection before the response is
\* finished: Request.connectionLost fires the completion signal with a failure
ConnectionLost(r) ==
    /\ reqs[r].arrived /\ ~reqs[r].finished /\ reqs[r].conn = "open"
    /\ LET w1 == Fire([World EXCEPT !.reqs[r].conn = "lost"], DFin(r), "ConnectionLost")
       IN  /\ call_lock' = w1.lock
           /\ dfr' = w1.dfr
           /\ reqs' = w1.reqs
    /\ UNCHANGED <<use_authentication, announced_startup, sessions, secret_ctr, call>>

\* expire_session: the session expires and _unregister_user_session drops it
ExpireSession(sid) ==
    /\ sessions[sid] # NoSecret
    /\ sessions' = unregister_user_session(sessions, sid)
    /\ UNCHANGED <<use_authentication, announced_startup, secret_ctr, call_lock, dfr, reqs, call>>

\* the daemon finishes its startup
AnnounceStartup ==
    /\ ~announced_startup
    /\ announced_startup' = TRUE
    /\ UNCHANGED <<use_authentication, sessions, secret_ctr, call_lock, dfr, reqs, call>>

\* the ends of a procedure: a result, an exception, an exception of a trapped
\* type, a failure that wraps a JSONRPCError
Outcomes == {"ok", "Exception", "RuntimeError", "JSONRPCError"}

Init ==
    /\ use_authentication \in BOOLEAN
    /\ InitDispatcher
    /\ call = IdleCall

Next ==
    \/ \E r \in Reqs, sid \in SessionIds, body \in Bodies, token \in Tokens :
           Render(r, sid, body, token)
    \/ \E r \in Reqs, outcome \in Outcomes : Complete(r, outcome)
    \/ \E r \in Reqs : ConnectionLost(r)
    \/ \E sid \in SessionIds : ExpireSession(sid)
    \/ AnnounceStartup

Spec == Init /\ [][Next]_vars

\* the procedure of request r stops executing. It can do so exactly when it
\* is executing: the first disjunct says that much without running the
\* callbacks of its Deferred, the second is the step the server takes
ProcedureEnds(r) ==
    /\ reqs[r].ex = "running"
    /\ \/ /\ reqs' = [reqs EXCEPT ![r].ex = "done"]
          /\ UNCHANGED <<use_authentication, announced_startup, sessions, secret_ctr,
                         call_lock, dfr, call>>
       \/ \E outcome \in Outcomes : Complete(r, outcome)

\* the reactor is fair to the procedures: one that was started returns or
\* fails in the end. The arrival of requests and the loss of connections are
\* for the clients to choose
Fairness == \A r \in Reqs : WF_vars(ProcedureEnds(r))

SpecLive == Init /\ [][Next]_vars /\ Fairness

(***************************************************************************)
(* Properties of the dispatcher                                            *)
(***************************************************************************)
Started(r) == reqs[r].ex \in {"running", "done", "cancelled"}
Ended(r) == reqs[r].ex \in {"done", "cancelled"}
Invoked(r) == reqs[r].ex # "none"
SameQueued(i, j) == reqs[i].method = reqs[j].method /\ reqs[i].method \in queued_methods

\* C1: at most one invocation of a queued procedure name is executing
C1_MutualExclusion ==
    \A m \in queued_methods :
        Cardinality({r \in Reqs : reqs[r].method = m /\ reqs[r].ex = "running"}) <= 1

\* C2: of two requests to the same queued procedure name, the one dispatched
\* first starts and finishes its invocation before the invocation of the
\* other starts
C2_ArrivalOrder ==
    \A i \in Reqs, j \in Reqs :
        (i < j /\ SameQueued(i, j) /\ Invoked(i) /\ Started(j)) => Ended(i)

\* C3: two calls to the same queued procedure name issued one right after
\* the other never execute at the same time, and a call issued while an
\* earlier call was waiting starts only after that call has completed
C3_NoOverlap ==
    /\ \A i \in Reqs, j \in Reqs :
          (/\ i < j /\ SameQueued(i, j) /\ Invoked(i) /\ Invoked(j)
           /\ \A k \in (i + 1)..(j - 1) : ~(SameQueued(i, k) /\ Invoked(k)))
          => ~(reqs[i].ex = "running" /\ reqs[j].ex = "running")
    /\ \A k \in Reqs :
          (reqs[k].behind # 0 /\ Started(k)) => Ended(reqs[k].behind)

\* C4: once the token of a call has been verified, the secret of the session
\* is no longer the secret that authenticated the call, and the same token
\* for the same request does not verify again
C4_SecretRotated ==
    \A r \in Reqs :
        reqs[r].verified =>
            LET body == Body("object", reqs[r].method, NoWire)
                token == Hmac(reqs[r].auth_key, get_auth_message(body))
            IN  /\ reqs[r].auth_key # NoSecret
                /\ sessions[reqs[r].sid] # reqs[r].auth_key
                /\ verify_token(sessions[reqs[r].sid], body, token) # ""

C4_Witness ==
    \E r \in Reqs : reqs[r].verified /\ sessions[reqs[r].sid] # NoSecret

\* a request of a known session for a procedure that requires a token, sent
\* without one while authentication is enabled
TokenMissing(r) ==
    /\ use_authentication /\ reqs[r].arrived /\ ~reqs[r].handshake
    /\ reqs[r].method \in authorized_functions /\ reqs[r].token = "none"

\* C5: a request without the token its procedure requires is answered with
\* code -32501 and status 401, its procedure is not called and the secret of
\* the session is not rotated
C5_MissingToken ==
    \A r \in Reqs :
        TokenMissing(r) =>
            /\ reqs[r].resp.code = CODE_AUTHENTICATION_ERROR
            /\ reqs[r].resp.http = 401
            /\ ~Invoked(r)
            /\ ~reqs[r].verified

\* C6 as stated: every request for a method name that is not registered is
\* answered with code -32601 and status 404, and no procedure is called
C6_Original ==
    \A r \in Reqs :
        (reqs[r].arrived /\ reqs[r].method = UnknownMethod) =>
            /\ reqs[r].resp.code = CODE_METHOD_NOT_FOUND
            /\ reqs[r].resp.http = 404
            /\ ~Invoked(r)

\* C6 amended: a request for a method name that is not registered, other
\* than the first request of a session that the handshake answers, is
\* answered with code -32601 and status 404, before and after the end of
\* startup, and no procedure is called
C6_UnknownMethod ==
    \A r \in Reqs :
        (reqs[r].arrived /\ reqs[r].method = UnknownMethod /\ ~reqs[r].handshake) =>
            /\ reqs[r].resp.code = CODE_METHOD_NOT_FOUND
            /\ reqs[r].resp.http = 404
            /\ ~Invoked(r)

C6_Witness ==
    /\ ~announced_startup
    /\ \E r \in Reqs :
          /\ reqs[r].arrived /\ reqs[r].method = UnknownMethod /\ ~reqs[r].handshake
          /\ reqs[r].resp.code = CODE_METHOD_NOT_FOUND

(***************************************************************************)
(* Properties of the binders                                               *)
(***************************************************************************)
UtilsBound == call.pc = "bound" /\ call.binder = "utils"
ServerBound == call.pc = "bound" /\ call.binder = "server"

Required(fn) == Len(fn.args) - Len(fn.defaults)

\* the indices of the declared parameters that the call does not name
UnnamedIndices(fn, d) ==
    LET NotNamed(i) == fn.args[i] \notin DOMAIN d
    IN  SelectSeq([i \in 1..Len(fn.args) |-> i], NotNamed)

CoerceAll(c, vs) == [i \in 1..Len(vs) |-> Coerce(c, vs[i])]

ExampleBound == ServerBound /\ call.fn = ExampleSignature /\ call.wire = ExampleWire
ExampleTuple == <<PyInt(<<"1">>), None, PyStr(<<"t","h","r","e","e">>), PyInt(<<"1">>)>>

\* C7 as stated: the dispatcher's binder yields the positional tuple
\* (1, None, "three", 1) for params [{"two": null}, 1] against
\* (one, two=None, three="three", four=1)
C7_Original ==
    ExampleBound =>
        /\ call.args_dict = [k \in {"two"} |-> None]
        /\ call.args_list = <<PyInt(<<"1">>)>>
        /\ call.res.err = ""
        /\ call.res.args = ExampleTuple

\* C7 amended: params [{"two": null}, 1] are split into named {two: null} and
\* positional [1]; _check_params returns the positional tuple (1,) and the
\* named mapping {two: None, three: "three", four: 1}, so that the procedure
\* is called with one=1, two=None, three="three", four=1
C7_Amended ==
    ExampleBound =>
        /\ call.args_dict = [k \in {"two"} |-> None]
        /\ call.args_list = <<PyInt(<<"1">>)>>
        /\ call.res.err = ""
        /\ call.res.args = <<PyInt(<<"1">>)>>
        /\ call.res.kwargs = [k \in {"two", "three", "four"} |->
                                DefaultsOf("f1", k)]
        /\ PyCall(call.fn, call.res.args, call.res.kwargs).err = ""
        /\ PyCall(call.fn, call.res.args, call.res.kwargs).params = ExampleTuple

C7_Witness == ExampleBound /\ call.res.err = ""

\* C8: with n required and k defaulted parameters, check_params called with
\* exactly n positional values and no named value returns, binds the n
\* values to the required parameters in order and every defaulted parameter
\* to its declared default (each passed through guess_type when
\* convert_type is set)
C8_RequiredOnly ==
    (UtilsBound /\ call.args_dict = EmptyDict /\ Len(call.args_list) = Required(call.fn)) =>
        /\ call.res.err = ""
        /\ call.res.kwargs = EmptyDict
        /\ Len(call.res.args) >= Len(call.fn.args)
        /\ \A i \in 1..Required(call.fn) :
               call.res.args[i] = Coerce(call.convert_type, call.args_list[i])
        /\ \A j \in 1..Len(call.fn.defaults) :
               call.res.args[Required(call.fn) + j] =
                   Coerce(call.convert_type, call.fn.defaults[j])
        /\ Len(call.res.args) = Len(call.fn.args)

C8_Witness ==
    /\ UtilsBound /\ call.args_dict = EmptyDict
    /\ Required(call.fn) = 2 /\ Len(call.args_list) = 2 /\ Len(call.fn.defaults) = 2
    /\ call.res.err = "" /\ Len(call.res.args) = 4

\* a call that gives one of the first p declared parameters by name as well
\* as p positional values
NamedAndPositional ==
    \E i \in 1..Len(call.args_list) :
        i <= Len(call.fn.args) /\ call.fn.args[i] \in DOMAIN call.args_dict

\* C9 as stated: check_params fails with a duplicate-argument error whenever
\* a parameter is given both by position and by name
C9_Original ==
    (UtilsBound /\ NamedAndPositional) => call.res.err = "Duplicate"

\* C9 amended: check_params never fails with a duplicate-argument error. It
\* binds every declared parameter that is named from its named value and the
\* positional values, in order, to the declared parameters that are not
\* named; the call fails only when positional values are left over and there
\* is no collector, when a parameter stays unbound or when named values are
\* left over. Only the dispatcher's _check_params refuses such a call as a
\* duplicate.
C9_Amended ==
    /\ (UtilsBound /\ NamedAndPositional) =>
         LET fn == call.fn
             un == UnnamedIndices(fn, call.args_dict)
             p == Len(call.args_list)
         IN
         /\ call.res.err \in {"", "TooManyArgs", "MissingArg", "TooManyKwargs"}
         /\ (p > Len(un) /\ fn.varargs = NoName) => call.res.err = "TooManyArgs"
         /\ call.res.err = "" =>
              /\ \A i \in 1..Len(fn.args) :
                     fn.args[i] \in DOMAIN call.args_dict =>
                         call.res.args[i] = Coerce(call.convert_type, call.args_dict[fn.args[i]])
              /\ \A j \in 1..Len(un) :
                     j <= p => call.res.args[un[j]] = Coerce(call.convert_type, call.args_list[j])
    /\ (ServerBound /\ NamedAndPositional) => call.res.err = "Duplicate"

C9_Witness ==
    /\ UtilsBound /\ NamedAndPositional /\ call.res.err = ""
    /\ Len(call.args_list) = 2 /\ "two" \in DOMAIN call.args_dict

\* C10: with a positional collector, check_params returns for any number of
\* positional values at or above the number of declared parameters, and the
\* values beyond those bound to declared parameters follow the declared
\* parameters in the returned tuple in their original order; without a
\* positional collector, a call with more positional values than declared
\* parameters left to bind fails with the too-many-arguments error
C10_Collector ==
    UtilsBound =>
        LET fn == call.fn
            p == Len(call.args_list)
            m == Len(fn.args)
            u == Len(UnnamedIndices(fn, call.args_dict))
            excess == SubSeq(call.args_list, u + 1, p)
        IN
        /\ (fn.varargs # NoName /\ call.args_dict = EmptyDict /\ p >= m) =>
              /\ call.res.err = ""
              /\ call.res.args = CoerceAll(call.convert_type, call.args_list)
        /\ fn.varargs # NoName => call.res.err # "TooManyArgs"
        /\ (fn.varargs # NoName /\ call.res.err = "" /\ p > u) =>
              SubSeq(call.res.args, m + 1, Len(call.res.args)) =
                  CoerceAll(call.convert_type, excess)
        /\ (fn.varargs = NoName /\ p > u) => call.res.err = "TooManyArgs"

C10_Witness ==
    /\ UtilsBound /\ call.fn.varargs # NoName /\ call.res.err = ""
    /\ Len(call.fn.args) = 1 /\ Len(call.args_list) = 3 /\ Len(call.res.args) = 3

(***************************************************************************)
(* Calls of guess_type                                                     *)
(***************************************************************************)
MaxLen == 4      \* characters of a string given to guess_type

\* the characters of the strings given to guess_type: the letters of null in
\* both cases, a digit, the decimal point and a sign
GuessAlphabet == {"n", "N", "u", "U", "l", "L", "1", ".", "-"}

RECURSIVE StringsUpTo(_)
StringsUpTo(n) ==
    IF n = 0 THEN {<<>>}
    ELSE LET S == StringsUpTo(n - 1)
         IN  S \cup {Append(cs, c) : cs \in {t \in S : Len(t) = n - 1}, c \in GuessAlphabet}

\* the strings of test_guess_type
TestStrings ==
    {<<"0",".","3",".","8">>, <<"0",".","3">>, <<"3">>, <<"V","d","N","m","A","D","/","=","=">>,
     <<"T","R","U","E">>, <<"t","r","u","e">>, <<"T","r","u","e">>,
     <<"F","A","L","S","E">>, <<"f","a","l","s","e">>, <<"F","a","l","s","e">>}

\* other spellings of the literals and other numerals
OtherStrings ==
    {<<"t","R","U","E">>, <<"f","a","l","s","E">>, <<"n","o","n","e">>, <<"N","o","n","e">>,
     <<"N","O","N","E">>, <<"n","o","n","E">>, <<" ","4","2"," ">>, <<"+","0","7">>,
     <<"1","e","5">>, <<"1",".","5","e","3">>, <<".","5">>, <<"5",".">>, <<"-","0",".","0">>}

GuessInputs ==
    {PyStr(cs) : cs \in StringsUpTo(MaxLen) \cup TestStrings \cup OtherStrings}
    \cup {None, PyTrue, PyFalse, PyInt(<<"3">>), <<"float", "0", ".", "3">>, <<"list", "8", "9">>}

InitGuess ==
    /\ use_authentication = FALSE
    /\ InitDispatcher
    /\ \E x \in GuessInputs : call = [pc |-> "input", x |-> x, res |-> Undefined]

\* DaemonCLITests.test_guess_type: utils.guess_type(x)
GuessType ==
    /\ call.pc = "input"
    /\ call' = [call EXCEPT !.pc = "guessed", !.res = guess_type(call.x)]
    /\ UNCHANGED dvars

NextGuess == GuessType

SpecGuess == InitGuess /\ [][NextGuess]_vars

(***************************************************************************)
(* Properties of guess_type                                                *)
(***************************************************************************)
ToLower(c) ==
    CASE c = "T" -> "t" [] c = "R" -> "r" [] c = "U" -> "u" [] c = "E" -> "e"
      [] c = "F" -> "f" [] c = "A" -> "a" [] c = "L" -> "l" [] c = "S" -> "s"
      [] c = "N" -> "n" [] c = "O" -> "o" [] OTHER -> c

Lower(cs) == [i \in 1..Len(cs) |-> ToLower(cs[i])]

\* the coercion that the specification describes
ReferenceCoercion(x) ==
    IF ~IsStr(x) THEN x
    ELSE LET cs == Chars(x) IN
         IF Lower(cs) = <<"t","r","u","e">> THEN PyTrue
         ELSE IF Lower(cs) = <<"f","a","l","s","e">> THEN PyFalse
         ELSE IF Lower(cs) \in {<<"n","o","n","e">>, <<"n","u","l","l">>} THEN None
         ELSE IF "." \in Range(cs)
              THEN (IF FloatParses(cs) THEN FloatValue(cs) ELSE x)
              ELSE (IF IntParses(cs) THEN IntValue(cs) ELSE x)

\* C11: guess_type returns what the coercion of the specification returns:
\* the literals true, false, none and null are recognised whatever their
\* case, before any numeric parsing, and values that are not strings are
\* returned unchanged
C11_GuessType ==
    call.pc = "guessed" => call.res = ReferenceCoercion(call.x)

(***************************************************************************)
(* Properties of the dispatcher: responses, sessions, locks                *)
(***************************************************************************)
\* the codes of the taxonomy of JSONRPCError
Taxonomy ==
    {CODE_PARSE_ERROR, CODE_INVALID_REQUEST, CODE_METHOD_NOT_FOUND, CODE_INVALID_PARAMS,
     CODE_INTERNAL_ERROR, CODE_APPLICATION_ERROR, CODE_AUTHENTICATION_ERROR}

WellFormedError(resp) ==
    /\ resp.kind = "error" /\ resp.code \in Taxonomy /\ resp.http = HTTP_CODES(resp.code)
    /\ resp.message # ""

\* C12: a request of a connected client that failed before its procedure was
\* called has a well-formed error response, and a request of a connected
\* client whose invocation has ended, by a result, a failure or a
\* cancellation, has a response, well-formed when it is an error
C12_EveryFailureAnswered ==
    \A r \in Reqs :
        (reqs[r].arrived /\ ~reqs[r].handshake /\ reqs[r].conn = "open") =>
            /\ ~Invoked(r) => WellFormedError(reqs[r].resp)
            /\ Ended(r) => reqs[r].resp.kind # "none"
            /\ reqs[r].resp.kind = "error" => WellFormedError(reqs[r].resp)

\* C13: after check_params returns or raises, the caller's positional list
\* and named mapping hold what they held before the call
C13_ContainersUnchanged ==
    UtilsBound =>
        /\ call.res.args_list = call.args_list
        /\ call.res.args_dict = call.args_dict

\* C14: the response of a request whose token was verified, a result or an
\* error of a later stage, carries a secret of the session generated after
\* the one that authenticated the request
C14_ResponseCarriesSecret ==
    \A r \in Reqs :
        (reqs[r].verified /\ reqs[r].resp.kind # "none") =>
            /\ reqs[r].resp.secret # NoSecret
            /\ reqs[r].resp.secret > reqs[r].auth_key

\* C15: with authentication enabled, the procedure of a request for an
\* auth-required name is called or queued only if the token of that request
\* was verified, against a secret generated for its session, in the same
\* request
C15_InvokedOnlyVerified ==
    \A r \in Reqs :
        (use_authentication /\ Invoked(r) /\ reqs[r].method \in authorized_functions) =>
            /\ reqs[r].verified
            /\ reqs[r].token = "given"
            /\ reqs[r].auth_key \in 1..secret_ctr

C15_Witness ==
    \E r \in Reqs, q \in Reqs :
        /\ use_authentication /\ Started(r) /\ reqs[r].method \in authorized_functions
        /\ reqs[r].verified
        /\ q < r /\ reqs[q].token \in {"none", "given"} /\ ~reqs[q].verified

\* the completion signal of request r has fired
Fired(r) == dfr[DFin(r)].called

\* C16: once the completion signal of a request has fired, with success or
\* with an error, no lock of the lock table is tied to that request
C16_LockRemoved ==
    \A r \in Reqs, m \in queued_methods : Fired(r) => call_lock[m] # r

\* C17: in the step in which a request for a procedure that is not queued
\* arrives and is bound, its procedure is called, whatever the locks and the
\* waiting calls, and the lock table is left as it was
C17_UnqueuedImmediate ==
    [][\A r \in Reqs :
          (/\ ~reqs[r].arrived /\ reqs'[r].arrived
           /\ reqs'[r].method \in callable_methods \ queued_methods
           /\ reqs'[r].ex # "none")
          => (reqs'[r].ex = "running" /\ call_lock' = call_lock)]_vars

C17_Witness ==
    \E r \in Reqs, q \in Reqs :
        /\ reqs[r].method \in callable_methods \ queued_methods /\ reqs[r].ex = "running"
        /\ q < r /\ reqs[q].ex = "waiting"
        /\ \E m \in queued_methods : call_lock[m] # 0

\* C18: in the step in which a request arrives, if authentication is enabled
\* and the session has no entry, the session gets a secret never generated
\* before and the request is answered with status 200, the acknowledgment and
\* that secret, no token is verified and no procedure is called, whatever the
\* body; in every other case the request does not take this path
C18_Handshake ==
    [][\A r \in Reqs :
          (~reqs[r].arrived /\ reqs'[r].arrived) =>
              LET sid == reqs'[r].sid
                  q == reqs'[r]
              IN  IF use_authentication /\ sessions[sid] = NoSecret
                  THEN /\ q.handshake
                       /\ sessions'[sid] # NoSecret /\ sessions'[sid] > secret_ctr
                       /\ q.resp.kind = "ack" /\ q.resp.http = 200
                       /\ q.resp.secret = sessions'[sid]
                       /\ q.finished
                       /\ q.token = "" /\ ~q.verified /\ q.ex = "none"
                       /\ call_lock' = call_lock
                  ELSE ~q.handshake /\ q.resp.kind # "ack"]_vars

\* a handshake that answers a request with a body that is not JSON, after the
\* session of an earlier handshake has expired
C18_Witness ==
    \E r \in Reqs, q \in Reqs :
        /\ q < r /\ reqs[q].handshake /\ reqs[r].handshake
        /\ reqs[r].method = "" /\ reqs[r].resp.kind = "ack"

\* authentication is disabled or the request names no auth-required procedure
AuthSkipped(q) == ~use_authentication \/ q.method \notin authorized_functions

\* C19 as stated: for a request that arrives while authentication is
\* disabled, or that names no auth-required procedure, no token is verified,
\* the secret of the session is left as it was and no response of the request
\* carries a secret
C19_Original ==
    [][\A r \in Reqs :
          /\ (~reqs[r].arrived /\ reqs'[r].arrived /\ AuthSkipped(reqs'[r])) =>
                 /\ sessions' = sessions /\ secret_ctr' = secret_ctr
                 /\ ~reqs'[r].verified /\ reqs'[r].token = ""
          /\ (reqs'[r].arrived /\ AuthSkipped(reqs'[r])) =>
                 reqs'[r].resp.secret = NoSecret]_vars

\* C19 amended: the same, for every request other than the first request of
\* a session that the handshake answers
C19_NoAuthentication ==
    [][\A r \in Reqs :
          /\ (/\ ~reqs[r].arrived /\ reqs'[r].arrived
              /\ AuthSkipped(reqs'[r]) /\ ~reqs'[r].handshake) =>
                 /\ sessions' = sessions /\ secret_ctr' = secret_ctr
                 /\ ~reqs'[r].verified /\ reqs'[r].token = ""
                 /\ reqs'[r].method \in callable_methods =>
                        (reqs'[r].resp.code # CODE_AUTHENTICATION_ERROR)
          /\ (reqs'[r].arrived /\ AuthSkipped(reqs'[r]) /\ ~reqs'[r].handshake) =>
                 /\ reqs'[r].resp.secret = NoSecret
                 /\ ~reqs'[r].verified]_vars

C19_Witness ==
    \E r \in Reqs :
        /\ use_authentication /\ reqs[r].arrived /\ ~reqs[r].handshake
        /\ sessions[reqs[r].sid] # NoSecret
        /\ reqs[r].method \in callable_methods \ authorized_functions
        /\ reqs[r].resp.kind = "result"

\* the answer of the startup gate
RefusedDuringStartup(q) ==
    /\ q.resp.kind = "error" /\ q.resp.code = CODE_INVALID_REQUEST /\ q.resp.http = 400
    /\ q.resp.message = StartupMessage
    /\ q.ex = "none"

\* the request went on to binding: it was called or queued, or refused for
\* its params
Resolved(q) ==
    \/ q.ex # "none"
    \/ q.resp.kind = "error" /\ q.resp.code \in {CODE_INVALID_PARAMS, CODE_APPLICATION_ERROR}

\* the request was refused by the verification of its token
AuthRefused(q) == q.token # "" /\ ~q.verified

\* C20 as stated: a request for a registered procedure that arrives before
\* the end of startup is resolved if the procedure is allowed during startup
\* and is otherwise refused with -32600, status 400 and the message of the
\* startup gate, without a call; after the end of startup it is resolved
C20_Original ==
    [][\A r \in Reqs :
          (/\ ~reqs[r].arrived /\ reqs'[r].arrived
           /\ reqs'[r].method \in callable_methods) =>
              IF ~announced_startup /\ reqs'[r].method \notin allowed_during_startup
              THEN RefusedDuringStartup(reqs'[r])
              ELSE Resolved(reqs'[r]) /\ ~RefusedDuringStartup(reqs'[r])]_vars

\* C20 amended: the same, for a request that reaches the lookup of its
\* procedure: one that is not answered by the handshake and not refused by
\* the verification of its token
C20_StartupGate ==
    [][\A r \in Reqs :
          (/\ ~reqs[r].arrived /\ reqs'[r].arrived
           /\ reqs'[r].method \in callable_methods
           /\ ~reqs'[r].handshake /\ ~AuthRefused(reqs'[r])) =>
              IF ~announced_startup /\ reqs'[r].method \notin allowed_during_startup
              THEN RefusedDuringStartup(reqs'[r])
              ELSE Resolved(reqs'[r]) /\ ~RefusedDuringStartup(reqs'[r])]_vars

\* before the end of startup a request with a verified token is refused by
\* the gate and a request for a procedure allowed during startup is running
C20_Witness ==
    /\ ~announced_startup
    /\ \E r \in Reqs, q \in Reqs :
          /\ reqs[r].verified /\ RefusedDuringStartup(reqs[r])
          /\ reqs[q].method \in allowed_during_startup /\ reqs[q].ex = "running"

(***************************************************************************)
(* Properties of the dispatcher: binding, failures, cancellation           *)
(***************************************************************************)
\* a request of session sid with this body and token, arriving now, passes
\* the handshake, the parsing, the authentication, the lookup and the split
\* of its params
ReachesBinding(sid, body, token) ==
    /\ ~(use_authentication /\ sessions[sid] = NoSecret)
    /\ body.kind = "object"
    /\ (use_authentication /\ body.method \in authorized_functions) =>
           verify_token(sessions[sid], body, token) = ""
    /\ get_jsonrpc_method(body.method, announced_startup).err = ""
    /\ SplitParams(body.wire).err = ""

\* the step in which request r arrives, of session sid and with this body
Arrives(r, sid, body) ==
    /\ ~reqs[r].arrived /\ reqs'[r].arrived
    /\ reqs'[r].sid = sid /\ reqs'[r].method = body.method

\* the error with which _check_params refuses the params of the body
BinderError(body) ==
    LET sp == SplitParams(body.wire)
    IN  server_check_params(SignatureOf(body.method), sp.args_list, sp.args_dict).err

\* the bodies whose params _check_params refuses
RejectedBodies == {body \in Bodies : body.kind = "object" /\ BinderError(body) # ""}

\* the answer to a request whose params the binder refuses, and what the
\* step leaves alone
RejectedAnswer(r) ==
    /\ reqs'[r].resp.kind = "error"
    /\ reqs'[r].resp.code = CODE_INVALID_PARAMS
    /\ reqs'[r].resp.http = 400
    /\ reqs'[r].resp.message = ExceptionMessage
    /\ reqs'[r].ex = "none"
    /\ call_lock' = call_lock
    /\ \A d \in DIds \ {DFin(r)} : dfr'[d] = dfr[d]

\* C21: when a request reaches binding and _check_params refuses its params,
\* as a duplicate, as too many, as extraneous or as missing, the request is
\* answered with -32602, status 400 and the message of the binder, its
\* procedure is neither called nor queued, the lock table is left as it was
\* and no callback is added to the Deferred of another request: a step in
\* which a request arrives either ends so, or is not the arrival of such a
\* request
C21_BinderRejection ==
    [][\A r \in Reqs :
          (~reqs[r].arrived /\ reqs'[r].arrived) =>
              \/ RejectedAnswer(r)
              \/ \A sid \in SessionIds, body \in RejectedBodies :
                     ~(/\ Arrives(r, sid, body)
                       /\ \E token \in Tokens :
                              ReachesBinding(sid, body, token)
                              /\ Render(r, sid, body, token))]_vars

\* a request refused by the binder while the lock of its name is held
C21_Witness ==
    \E r \in Reqs, q \in Reqs :
        /\ reqs[r].method \in queued_methods
        /\ reqs[r].resp.code = CODE_INVALID_PARAMS /\ reqs[r].ex = "none"
        /\ q < r /\ call_lock[reqs[r].method] = q /\ reqs[q].ex = "running"

\* every error of the binder is met by a body
C21_Kinds ==
    {BinderError(body) : body \in Bodies} =
        {"", "Duplicate", "TooManyArguments", "Extraneous", "MissingRequired"}

\* C22: when a procedure fails while the connection of its request is open and
\* no response is written yet, an ordinary failure is answered with -32500 and
\* status 500, and a failure that carries a JSONRPCError is answered with the
\* code of that error and the status of that code
C22_ProcedureFailure ==
    [][\A r \in Reqs, outcome \in {"Exception", "JSONRPCError"} :
          (/\ reqs[r].conn = "open" /\ ~reqs[r].finished
           /\ Complete(r, outcome))
          => LET code == IF outcome = "JSONRPCError" THEN StructuredCode
                         ELSE CODE_APPLICATION_ERROR
             IN  /\ reqs'[r].resp.kind = "error"
                 /\ reqs'[r].resp.code = code
                 /\ reqs'[r].resp.http = HTTP_CODES(code)]_vars

\* the same for the ordinary failures alone
C22_OrdinaryFailure ==
    [][\A r \in Reqs :
          (/\ reqs[r].conn = "open" /\ ~reqs[r].finished
           /\ Complete(r, "Exception"))
          => /\ reqs'[r].resp.kind = "error"
             /\ reqs'[r].resp.code = CODE_APPLICATION_ERROR
             /\ reqs'[r].resp.http = 500]_vars

\* the Deferred that the errback of the completion signal of r cancels
DroppedTarget(r) ==
    LET ds == {dfr[DFin(r)].chain[i].d :
                   i \in {j \in DOMAIN dfr[DFin(r)].chain : dfr[DFin(r)].chain[j].t = "dropped"}}
    IN  IF ds = {} THEN NoD ELSE CHOOSE d \in ds : TRUE

\* C23: when the connection of a request is lost before its response is
\* written and its procedure is executing, the execution of that request is
\* cancelled, whether it was called at once or from the queue
C23_OwnExecutionCancelled ==
    [][\A r \in Reqs :
          (reqs[r].ex = "running" /\ ConnectionLost(r)) => reqs'[r].ex = "cancelled"]_vars

\* the same for the requests whose procedure was called at once
C23_ImmediateCancelled ==
    [][\A r \in Reqs :
          (reqs[r].ex = "running" /\ DroppedTarget(r) = DExe(r) /\ ConnectionLost(r))
          => reqs'[r].ex = "cancelled"]_vars

\* the answer to the first request of a session: the handshake with a secret
\* never given out before, and no procedure called
HandshakeAnswer(r, sid) ==
    /\ reqs'[r].handshake /\ reqs'[r].resp.kind = "ack"
    /\ reqs'[r].resp.secret = sessions'[sid]
    /\ sessions'[sid] > secret_ctr
    /\ reqs'[r].ex = "none" /\ ~reqs'[r].verified

\* C24: the expiry of a session removes its secret; with authentication on,
\* the next request of that session id is answered with the handshake, which
\* carries a secret never given out before, and calls no procedure; a token
\* made with a secret that is not the current one of the session, as every
\* secret of an expired session is, is refused and calls no procedure: a
\* step in which a request is verified or its procedure is called or queued
\* is not the arrival of a request with such a token
C24_ExpiredSession ==
    [][/\ \A sid \in SessionIds : ExpireSession(sid) => sessions'[sid] = NoSecret
       /\ \A r \in Reqs :
              (use_authentication /\ ~reqs[r].arrived /\ reqs'[r].arrived) =>
                  \A sid \in SessionIds :
                      /\ (sessions[sid] = NoSecret /\ secret_ctr > 0 /\ reqs'[r].sid = sid)
                             => HandshakeAnswer(r, sid)
                      /\ \/ ~reqs'[r].verified /\ reqs'[r].ex = "none"
                         \/ \A body \in Bodies, k \in 1..secret_ctr, msg \in Messages :
                                ~(/\ k # sessions[sid]
                                  /\ body.kind = "object"
                                  /\ body.method \in authorized_functions
                                  /\ Arrives(r, sid, body)
                                  /\ Render(r, sid, body, Hmac(k, msg)))]_vars

\* a session that expired and was answered a second handshake, after which a
\* request with a token was refused
C24_Witness ==
    \E q \in Reqs, r \in Reqs, t \in Reqs :
        /\ q < r /\ r < t
        /\ reqs[q].handshake /\ reqs[r].handshake
        /\ reqs[q].resp.secret # NoSecret /\ reqs[r].resp.secret > reqs[q].resp.secret
        /\ reqs[t].token = "given" /\ ~reqs[t].verified
        /\ reqs[t].resp.kind = "error" /\ reqs[t].ex = "none"

(***************************************************************************)
(* Properties of the binders: empty params, missing and unknown arguments  *)
(***************************************************************************)
\* C25: params that are a list holding one empty object are split into no
\* positional and no named arguments: the empty object is not a positional
\* argument, and _check_params gives what it gives for params that are an
\* empty sequence
C25_EmptyParams ==
    (call.pc = "bound" /\ call.binder = "server" /\ call.wire = EMPTY_PARAMS)
    => /\ call.args_list = <<>> /\ call.args_dict = EmptyDict
       /\ \A i \in DOMAIN call.res.args : call.res.args[i] # EmptyDict
       /\ LET sp == SplitParams(EmptySequence)
          IN  call.res = server_check_params(call.fn, sp.args_list, sp.args_dict)

\* [{}] bound for a procedure whose parameters all have defaults, and bound
\* with success
C25_Witness ==
    /\ call.pc = "bound" /\ call.binder = "server" /\ call.wire = EMPTY_PARAMS
    /\ Len(call.fn.args) > 0 /\ call.res.err = ""

\* the declared parameters without a default that are left without a value
\* when every named value goes to its parameter and the positional values go,
\* in order, to the parameters that are not named
Starved(fn, l, d) ==
    LET unnamed == UnnamedIndices(fn, d)
    IN  {unnamed[k] : k \in {j \in DOMAIN unnamed : j > Len(l) /\ unnamed[j] <= Required(fn)}}

MissingErrors == {"MissingArg", "MissingRequired"}

\* C26: a binder call fails with the missing-argument error exactly when some
\* declared parameter without a default received neither a named nor a
\* positional value, and a call that succeeds binds no placeholder
C26_MissingExactly ==
    call.pc = "bound" =>
        /\ (call.res.err \in MissingErrors) <=>
               (Starved(call.fn, call.args_list, call.args_dict) # {})
        /\ call.res.err = "" =>
               /\ \A i \in DOMAIN call.res.args : call.res.args[i] # Undefined
               /\ \A k \in DOMAIN call.res.kwargs : call.res.kwargs[k] # Undefined

\* the same for utils.check_params alone
C26_UtilsMissingExactly == UtilsBound => C26_MissingExactly

\* _check_params refuses a required parameter that is given by name
C26_NamedRequiredRefused ==
    ~(/\ ServerBound /\ call.res.err = "MissingRequired"
      /\ call.args_list = <<>> /\ DOMAIN call.args_dict = {"one"}
      /\ call.fn = ArgSpec(<<"one">>, <<>>, NoName, NoName))

\* the named values of a call that match no declared parameter
UnmatchedNamed(fn, d) == DOMAIN d \ Range(fn.args)

\* the named value under the name of the positional collector is taken as
\* the collected values when the walk leaves no positional value
StarTaken(fn, l, d) ==
    /\ fn.varargs # NoName /\ fn.varargs \in DOMAIN d
    /\ Len(l) <= Len(UnnamedIndices(fn, d))

\* the positional values are more than the parameters that can take them
Overflow(fn, l, d) == fn.varargs = NoName /\ Len(l) > Len(UnnamedIndices(fn, d))

\* C27 as stated: the named values that match no declared parameter are
\* returned unchanged as the named mapping when the signature has a named
\* collector and make the call fail with the too-many-named error when it
\* has none; a named value that matched a parameter is not returned
C27_Original ==
    UtilsBound =>
        LET fn == call.fn
            d == call.args_dict
            U == UnmatchedNamed(fn, d)
        IN  /\ (fn.keywords # NoName /\ call.res.err = "") =>
                   call.res.kwargs = [k \in U |-> d[k]]
            /\ (fn.keywords = NoName /\ U # {}) => call.res.err = "TooManyKwargs"
            /\ call.res.err = "" => DOMAIN call.res.kwargs \cap Range(fn.args) = {}

\* C27 amended: of the named values that match no declared parameter, the one
\* under the name of the positional collector is taken as the collected
\* values when no positional value is left over; the others are returned
\* under their names, each passed through guess_type when convert_type is set,
\* when the signature has a named collector, and make the call fail when it
\* has none, with the too-many-named error unless the positional values
\* overflow or a required parameter is missing; a named value that matched a
\* parameter is not returned
C27_Amended ==
    UtilsBound =>
        LET fn == call.fn
            d == call.args_dict
            l == call.args_list
            U == UnmatchedNamed(fn, d) \ (IF StarTaken(fn, l, d) THEN {fn.varargs} ELSE {})
        IN  /\ (fn.keywords # NoName /\ call.res.err = "") =>
                   call.res.kwargs = [k \in U |-> Coerce(call.convert_type, d[k])]
            /\ (fn.keywords = NoName /\ U # {}) =>
                   /\ call.res.err # ""
                   /\ (~Overflow(fn, l, d) /\ Starved(fn, l, d) = {}) =>
                          call.res.err = "TooManyKwargs"
            /\ call.res.err = "" => DOMAIN call.res.kwargs \cap Range(fn.args) = {}

\* a call with a named value that matches a parameter and one that matches
\* none, for a signature with a named collector
C27_Witness ==
    /\ UtilsBound /\ call.res.err = "" /\ call.fn.keywords # NoName
    /\ "five" \in DOMAIN call.res.kwargs
    /\ DOMAIN call.args_dict \cap Range(call.fn.args) # {}

\* a call with a named value that matches no parameter, refused for a
\* signature without a named collector
C27_Refused ==
    /\ UtilsBound /\ call.res.err = "TooManyKwargs" /\ call.fn.keywords = NoName
    /\ "five" \in DOMAIN call.args_dict

\* the signature of the test procedure f3 and the call "f3 1 4 two=2 three=3"
F3Signature == Signature(3, 2, "f1", "star", NoName)
F3Call ==
    /\ UtilsBound /\ call.fn = F3Signature
    /\ call.args_list = PosList(2) /\ DOMAIN call.args_dict = {"two", "three"}

\* C28: a call of check_params that returns gives every declared parameter,
\* in the order of declaration, its named value if it has one, else the next
\* positional value not yet taken, else its default; the positional values
\* left over follow in their order as the collected values; so the call of
\* f3 with two positional values and two and three named returns the first
\* positional value, the values of two and of three, and the second
\* positional value
C28_WalkOrder ==
    /\ (UtilsBound /\ call.res.err = "") =>
         LET fn == call.fn
             d == call.args_dict
             l == call.args_list
             m == Len(fn.args)
             un == UnnamedIndices(fn, d)
             u == Len(un)
             p == Len(l)
             Rank(i) == CHOOSE j \in 1..u : un[j] = i
             Value(i) == IF fn.args[i] \in DOMAIN d THEN d[fn.args[i]]
                         ELSE IF Rank(i) <= p THEN l[Rank(i)]
                         ELSE fn.defaults[i - Required(fn)]
         IN  /\ Len(call.res.args) >= m
             /\ \A i \in 1..m : call.res.args[i] = Coerce(call.convert_type, Value(i))
             /\ p > u => SubSeq(call.res.args, m + 1, Len(call.res.args)) =
                             CoerceAll(call.convert_type, SubSeq(l, u + 1, p))
             /\ (p <= u /\ ~StarTaken(fn, l, d)) => Len(call.res.args) = m
    /\ F3Call =>
         /\ call.res.err = ""
         /\ call.res.args = CoerceAll(call.convert_type,
                                      <<call.args_list[1], call.args_dict["two"],
                                        call.args_dict["three"], call.args_list[2]>>)
         /\ call.res.kwargs = EmptyDict

\* the call of f3 with two positional values and two named ones, bound
C28_Witness == F3Call /\ call.res.err = "" /\ Len(call.res.args) = 4

\* C29: when the connection of a request is lost, every other request whose
\* procedure is executing keeps executing, the completion signal of no other
\* request is fired or cancelled, and the lock of another request stays
C29_OthersUntouched ==
    [][\A r \in Reqs :
          ConnectionLost(r) =>
              \A q \in Reqs \ {r} :
                  /\ reqs[q].ex = "running" => reqs'[q].ex = "running"
                  /\ dfr'[DFin(q)].called = dfr[DFin(q)].called
                  /\ \A m \in queued_methods :
                         call_lock[m] = q => call_lock'[m] = q]_vars

\* C30: when every procedure that is started returns or fails in the end,
\* every request that is queued behind a lock has its procedure started in
\* the end
C30_QueuedStarts ==
    \A r \in Reqs : (reqs[r].ex = "waiting") ~> Started(r)

\* a request waits behind a lock whose owner has ended without a response
C30_Stuck ==
    \E r \in Reqs, q \in Reqs :
        /\ reqs[r].ex = "waiting" /\ call_lock[reqs[r].method] = q
        /\ reqs[q].ex = "done" /\ ~reqs[q].finished /\ reqs[q].conn = "open"

C31_ResponseKept ==
    [][\A r \in Reqs : reqs[r].finished =>
           /\ reqs'[r].resp = reqs[r].resp
           /\ reqs'[r].writes = reqs[r].writes]_vars

C31_QueuedAnswered ==
    \E a \in Reqs, b \in Reqs :
        /\ a < b /\ reqs[a].ex = "cancelled" /\ reqs[a].method \in queued_methods
        /\ reqs[b].method = reqs[a].method /\ reqs[b].ex = "done" /\ reqs[b].writes = 1

(***************************************************************************)
(* Properties of the binders: the two binders compared                     *)
(***************************************************************************)
\* what utils.check_params, without coercion, gives for the positional list
\* and the named mapping that _check_params was given
UtilsResult == check_params(call.fn, call.args_list, call.args_dict, FALSE)

\* C32: for every signature, positional list and named mapping, _check_params
\* and utils.check_params without coercion both fail or both return, and when
\* they return the procedure called with what each returned receives the same
\* value for every declared parameter and the same collected values
C32_BindersAgree ==
    ServerBound =>
        /\ (call.res.err = "") <=> (UtilsResult.err = "")
        /\ call.res.err = "" =>
               PyCall(call.fn, call.res.args, call.res.kwargs) =
                   PyCall(call.fn, UtilsResult.args, UtilsResult.kwargs)

\* the two binders both return
C32_BothReturn == ServerBound /\ call.res.err = "" /\ UtilsResult.err = ""

\* when both return, the procedure receives the same values
C32_SameValues ==
    C32_BothReturn =>
        PyCall(call.fn, call.res.args, call.res.kwargs) =
            PyCall(call.fn, UtilsResult.args, UtilsResult.kwargs)

\* _check_params refuses a call that utils.check_params binds
C32_ServerOnlyFails == ~(ServerBound /\ call.res.err # "" /\ UtilsResult.err = "")

\* utils.check_params refuses a call that _check_params binds
C32_UtilsOnlyFails == ~(ServerBound /\ call.res.err = "" /\ UtilsResult.err # "")


====
